---- MODULE Spec2Model ----
(***************************************************************************)
(* Binding lifecycle and ownership transfer of fidl::InterfacePtr          *)
(* (cpp/bindings/interface_ptr.h).                                         *)
(*                                                                         *)
(* The wrapper InterfacePtr is translated from interface_ptr.h.  The       *)
(* classes it delegates to, internal::InterfacePtrState and                *)
(* InterfaceHandle, live in headers that are only included by that file;   *)
(* their operators (prefixed State_ and Handle_) follow the lifecycle      *)
(* contract of the Binding State and the Capability Handle.                *)
(***************************************************************************)
EXTENDS Integers, FiniteSets, Sequences, TLC

\* ---- bounds ----
NumPtrs == 2
NumCaps == 1
MaxEndpoints == 2
MaxVersion == 1
MaxOut == 1
MaxIn == 1

\* ---- program constants ----
NoEndpoint == 0
NoWaiter == 0
DefaultWaiter == 1
MX_TIME_INFINITE == 2

Ptrs == 1..NumPtrs
Caps == 1..NumCaps
Endpoints == 1..MaxEndpoints
Versions == 0..MaxVersion

\* finite timeouts of a timed wait: zero and positive
Timeouts == {0, 1}

VARIABLES
  ptr,         \* ptr[h]: [live, internal_state_] for each InterfacePtr object
  cap,         \* cap[c]: an InterfaceHandle value held by the caller
  closed,      \* channel endpoints whose local end has been closed
  nextEp,      \* next fresh channel endpoint
  remoteVer,   \* remoteVer[e]: version the remote implementation supports
  pending,     \* pending[e]: version requirement in flight to the remote (0: none)
  peerClosed,  \* endpoints whose remote end has been closed
  out,         \* out[e]: method calls written to the pipe, not yet read by the remote
  inb,         \* inb[e]: responses written by the remote, not yet dispatched
  origin,      \* origin[c]: the endpoint and version() of the pointer cap[c] was passed from
  last         \* the operation that produced this state, with its inputs

vars == <<ptr, cap, closed, nextEp, remoteVer, pending, peerClosed, out, inb, origin, last>>

\* ---- InterfaceHandle (Capability Handle) ----
InvalidHandle == [ep |-> NoEndpoint, version |-> 0]

Handle_is_valid(info) == info.ep # NoEndpoint

Handle_version(info) == info.version

\* endpoints closed when an InterfaceHandle is destroyed
Handle_Destroy(info) == IF info.ep # NoEndpoint THEN {info.ep} ELSE {}

\* ---- internal::InterfacePtrState (Binding State) ----
EmptyState == [ep |-> NoEndpoint, version |-> 0, err |-> FALSE, waiter |-> NoWaiter]

State_is_bound(s) == s.ep # NoEndpoint

State_version(s) == s.version

State_encountered_error(s) == s.err

State_Swap(self, other) == [self |-> other, other |-> self]

State_Bind(s, info, waiter) ==
  [self |-> [s EXCEPT !.ep = info.ep, !.version = Handle_version(info), !.waiter = waiter],
   info |-> InvalidHandle]

State_PassInterfaceHandle(s) ==
  [self |-> [s EXCEPT !.ep = NoEndpoint],
   handle |-> [ep |-> s.ep, version |-> IF s.ep # NoEndpoint THEN s.version ELSE 0]]

\* v <= version: nothing; otherwise the requirement is recorded and sent
State_RequireVersion(s, v) ==
  IF v <= s.version
    THEN [self |-> s, sent |-> 0]
    ELSE [self |-> [s EXCEPT !.version = v], sent |-> v]

\* a method call through instance(): dropped once the error flag is set
State_Call(s) == [self |-> s, sent |-> ~s.err]

\* readable: a response is waiting; peerGone: the remote end is closed.
\* blocked: neither a message nor an error nor the deadline has come yet
State_WaitForIncomingResponse(s, timeout, readable, peerGone) ==
  IF s.err
    THEN [self |-> s, result |-> FALSE, read |-> 0, blocked |-> FALSE]
  ELSE IF readable
    THEN [self |-> s, result |-> TRUE, read |-> 1, blocked |-> FALSE]
  ELSE IF peerGone
    THEN [self |-> [s EXCEPT !.err = TRUE], result |-> FALSE, read |-> 0, blocked |-> FALSE]
  ELSE IF timeout # MX_TIME_INFINITE
    THEN [self |-> s, result |-> FALSE, read |-> 0, blocked |-> FALSE]
  ELSE [self |-> s, result |-> FALSE, read |-> 0, blocked |-> TRUE]

\* endpoints closed when a Binding State is destroyed
State_Destroy(s) == IF s.ep # NoEndpoint THEN {s.ep} ELSE {}

\* ---- InterfacePtr ----
InterfacePtr == EmptyState

is_bound(self) == State_is_bound(self)

version(self) == State_version(self)

encountered_error(self) == State_encountered_error(self)

\* variant: an errored binding is left in place
reset_KeepsErrored(self) ==
  IF self.err
    THEN [self |-> self, closed |-> {}]
    ELSE [self |-> EmptyState, closed |-> State_Destroy(self)]

reset(self) ==
  LET doomed == EmptyState
      sw == State_Swap(self, doomed)
  IN [self |-> sw.self, closed |-> State_Destroy(sw.other)]

\* variant: the binding is copied instead of swapped
MoveConstruct_Copies(other) == [self |-> other, other |-> other]

\* variant: the fields are taken one by one and the error state is left behind
MoveConstruct_DropsError(other) ==
  [self |-> [other EXCEPT !.err = FALSE], other |-> EmptyState]

MoveConstruct(other) ==
  LET sw == State_Swap(EmptyState, other)
  IN [self |-> sw.self, other |-> sw.other]

\* variant: the swap comes first and reset() after it
MoveAssign_SwapFirst(self, other, same) ==
  LET src == IF same THEN self ELSE other
      sw == State_Swap(self, src)
      r == reset(sw.self)
  IN [self |-> r.self, other |-> IF same THEN r.self ELSE sw.other, closed |-> r.closed]

\* variant: assignment to itself is detected and skipped
MoveAssign_SelfChecked(self, other, same) ==
  IF same
    THEN [self |-> self, other |-> self, closed |-> {}]
    ELSE [self |-> other, other |-> EmptyState, closed |-> State_Destroy(self)]

\* same: the source and the destination are one object
MoveAssign(self, other, same) ==
  LET r == reset(self)
      src == IF same THEN r.self ELSE other
      sw == State_Swap(r.self, src)
  IN [self |-> sw.self, other |-> sw.other, closed |-> r.closed]

AssignNull(self) == reset(self)

\* variant: the pipe is not closed on destruction
Destructor_Leaks(self) == [closed |-> {}]

Destructor(self) == [closed |-> State_Destroy(self)]

\* variant: the previous binding is not released before binding
Bind_NoReset(self, info, waiter) ==
  IF Handle_is_valid(info)
    THEN [self |-> State_Bind(self, info, waiter).self, closed |-> {}]
    ELSE [self |-> reset(self).self, closed |-> reset(self).closed]

\* variant: an invalid |info| leaves the pointer as it was
Bind_InvalidIgnored(self, info, waiter) ==
  IF Handle_is_valid(info)
    THEN [self |-> State_Bind(reset(self).self, info, waiter).self,
          closed |-> reset(self).closed]
    ELSE [self |-> self, closed |-> {}]

\* variant: the handle's version is not carried into the binding
Bind_DropsVersion(self, info, waiter) ==
  IF Handle_is_valid(info)
    THEN [self |-> State_Bind(reset(self).self, [info EXCEPT !.version = 0], waiter).self,
          closed |-> reset(self).closed]
    ELSE [self |-> reset(self).self, closed |-> reset(self).closed]

Bind(self, info, waiter) ==
  LET r == reset(self)
  IN IF Handle_is_valid(info)
       THEN LET b == State_Bind(r.self, info, waiter)
            IN [self |-> b.self, closed |-> r.closed \cup Handle_Destroy(b.info)]
       ELSE [self |-> r.self, closed |-> r.closed \cup Handle_Destroy(info)]

\* variant: the validity test is inverted
Create_Inverted(info, waiter) ==
  IF ~Handle_is_valid(info)
    THEN Bind(InterfacePtr, info, waiter)
    ELSE [self |-> InterfacePtr, closed |-> Handle_Destroy(info)]

Create(info, waiter) ==
  LET p == InterfacePtr
  IN IF Handle_is_valid(info)
       THEN Bind(p, info, waiter)
       ELSE [self |-> p, closed |-> Handle_Destroy(info)]

\* variant: the requirement is raised by one
RequireVersion_OffByOne(self, v) == State_RequireVersion(self, v + 1)

\* variant: a requirement above version() is treated as failed at once
RequireVersion_FailsFast(self, v) ==
  IF v <= self.version
    THEN [self |-> self, sent |-> 0]
    ELSE [self |-> [self EXCEPT !.version = v, !.err = TRUE], sent |-> v]

\* variant: the version is set to the argument, whatever it was
RequireVersion_Lowers(self, v) ==
  [self |-> [self EXCEPT !.version = v], sent |-> IF v > self.version THEN v ELSE 0]

\* variant: the requirement is noted but never forwarded to the state
RequireVersion_NotForwarded(self, v) ==
  [self |-> [self EXCEPT !.version = IF v > @ THEN v ELSE @], sent |-> 0]

RequireVersion(self, v) == State_RequireVersion(self, v)

\* variant: the call is written to the pipe whatever the error state
Call_IgnoresError(self) == [self |-> self, sent |-> TRUE]

\* a call of an interface method through get() / operator->
Call(self) == State_Call(self)

\* variant: the untimed wait polls instead of blocking
WaitForIncomingResponse_Polls(self, readable, peerGone) ==
  State_WaitForIncomingResponse(self, 0, readable, peerGone)

WaitForIncomingResponse(self, readable, peerGone) ==
  State_WaitForIncomingResponse(self, MX_TIME_INFINITE, readable, peerGone)

\* variant: an expired deadline is recorded as an error
WaitForIncomingResponseWithTimeout_ExpiryIsError(self, timeout, readable, peerGone) ==
  LET r == State_WaitForIncomingResponse(self, timeout, readable, peerGone)
  IN IF ~r.blocked /\ ~r.result /\ ~r.self.err
       THEN [r EXCEPT !.self.err = TRUE]
       ELSE r

WaitForIncomingResponseWithTimeout(self, timeout, readable, peerGone) ==
  State_WaitForIncomingResponse(self, timeout, readable, peerGone)

\* variant: the state is not swapped out, the handle is a copy
PassInterfaceHandle_NoSwap(self) ==
  [self |-> self, handle |-> State_PassInterfaceHandle(self).handle, closed |-> {}]

\* variant: the handle is taken from internal_state_ after the swap
PassInterfaceHandle_WrongState(self) ==
  LET sw == State_Swap(self, EmptyState)
      p == State_PassInterfaceHandle(sw.self)
  IN [self |-> p.self, handle |-> p.handle, closed |-> State_Destroy(sw.other)]

PassInterfaceHandle(self) ==
  LET state == EmptyState
      sw == State_Swap(self, state)
      p == State_PassInterfaceHandle(sw.other)
  IN [self |-> sw.self, handle |-> p.handle, closed |-> State_Destroy(p.self)]

\* ---- bookkeeping ----
NoOrigin == [ep |-> NoEndpoint, version |-> 0]

NoOp == [op |-> "env", h |-> 0, o |-> 0, pre |-> EmptyState, opre |-> EmptyState,
         info |-> InvalidHandle, v |-> 0, ret |-> InvalidHandle, closed |-> {},
         from |-> NoOrigin, sent |-> FALSE, res |-> FALSE, read |-> 0,
         readable |-> FALSE, peerGone |-> FALSE]

\* closing the local end discards what was in flight on that channel
CloseEndpoints(S) ==
  /\ closed' = closed \cup S
  /\ pending' = [e \in Endpoints |-> IF e \in S THEN 0 ELSE pending[e]]
  /\ peerClosed' = peerClosed \ S
  /\ remoteVer' = [e \in Endpoints |-> IF e \in S THEN 0 ELSE remoteVer[e]]
  /\ out' = [e \in Endpoints |-> IF e \in S THEN 0 ELSE out[e]]
  /\ inb' = [e \in Endpoints |-> IF e \in S THEN 0 ELSE inb[e]]

Arg(c) == IF c = 0 THEN InvalidHandle ELSE cap[c]

Consume(c) == IF c = 0 THEN cap ELSE [cap EXCEPT ![c] = InvalidHandle]

From(c) == IF c = 0 THEN NoOrigin ELSE origin[c]

Forget(c) == IF c = 0 THEN origin ELSE [origin EXCEPT ![c] = NoOrigin]

Init ==
  /\ ptr = [h \in Ptrs |-> [live |-> FALSE, internal_state_ |-> EmptyState]]
  /\ cap = [c \in Caps |-> InvalidHandle]
  /\ closed = {}
  /\ nextEp = 1
  /\ remoteVer = [e \in Endpoints |-> 0]
  /\ pending = [e \in Endpoints |-> 0]
  /\ peerClosed = {}
  /\ out = [e \in Endpoints |-> 0]
  /\ inb = [e \in Endpoints |-> 0]
  /\ origin = [c \in Caps |-> NoOrigin]
  /\ last = NoOp

\* ---- the caller's operations ----
DoConstruct(h) ==
  /\ ~ptr[h].live
  /\ ptr' = [ptr EXCEPT ![h] = [live |-> TRUE, internal_state_ |-> InterfacePtr]]
  /\ last' = [NoOp EXCEPT !.op = "Construct", !.h = h]
  /\ UNCHANGED <<cap, closed, nextEp, remoteVer, pending, peerClosed, out, inb, origin>>

DoMoveConstruct(h, o) ==
  /\ ~ptr[h].live /\ ptr[o].live /\ h # o
  /\ LET r == MoveConstruct(ptr[o].internal_state_)
     IN ptr' = [ptr EXCEPT ![h] = [live |-> TRUE, internal_state_ |-> r.self],
                           ![o] = [live |-> TRUE, internal_state_ |-> r.other]]
  /\ last' = [NoOp EXCEPT !.op = "MoveConstruct", !.h = h, !.o = o,
                          !.opre = ptr[o].internal_state_]
  /\ UNCHANGED <<cap, closed, nextEp, remoteVer, pending, peerClosed, out, inb, origin>>

DoMoveAssign(h, o) ==
  /\ ptr[h].live /\ ptr[o].live
  /\ LET r == MoveAssign(ptr[h].internal_state_, ptr[o].internal_state_, h = o)
     IN /\ ptr' = [ptr EXCEPT ![o] = [live |-> TRUE, internal_state_ |-> r.other],
                              ![h] = [live |-> TRUE, internal_state_ |-> r.self]]
        /\ CloseEndpoints(r.closed)
        /\ last' = [NoOp EXCEPT !.op = "MoveAssign", !.h = h, !.o = o,
                                !.pre = ptr[h].internal_state_,
                                !.opre = ptr[o].internal_state_,
                                !.closed = r.closed]
  /\ UNCHANGED <<cap, nextEp, origin>>

DoAssignNull(h) ==
  /\ ptr[h].live
  /\ LET r == AssignNull(ptr[h].internal_state_)
     IN /\ ptr' = [ptr EXCEPT ![h].internal_state_ = r.self]
        /\ CloseEndpoints(r.closed)
        /\ last' = [NoOp EXCEPT !.op = "AssignNull", !.h = h,
                                !.pre = ptr[h].internal_state_, !.closed = r.closed]
  /\ UNCHANGED <<cap, nextEp, origin>>

DoDestroy(h) ==
  /\ ptr[h].live
  /\ LET r == Destructor(ptr[h].internal_state_)
     IN /\ ptr' = [ptr EXCEPT ![h] = [live |-> FALSE, internal_state_ |-> EmptyState]]
        /\ CloseEndpoints(r.closed)
        /\ last' = [NoOp EXCEPT !.op = "Destroy", !.h = h,
                                !.pre = ptr[h].internal_state_, !.closed = r.closed]
  /\ UNCHANGED <<cap, nextEp, origin>>

DoReset(h) ==
  /\ ptr[h].live
  /\ LET r == reset(ptr[h].internal_state_)
     IN /\ ptr' = [ptr EXCEPT ![h].internal_state_ = r.self]
        /\ CloseEndpoints(r.closed)
        /\ last' = [NoOp EXCEPT !.op = "reset", !.h = h,
                                !.pre = ptr[h].internal_state_, !.closed = r.closed]
  /\ UNCHANGED <<cap, nextEp, origin>>

\* c = 0: the argument is a temporary invalid InterfaceHandle
DoBind(h, c) ==
  /\ ptr[h].live
  /\ LET r == Bind(ptr[h].internal_state_, Arg(c), DefaultWaiter)
     IN /\ ptr' = [ptr EXCEPT ![h].internal_state_ = r.self]
        /\ cap' = Consume(c)
        /\ origin' = Forget(c)
        /\ CloseEndpoints(r.closed)
        /\ last' = [NoOp EXCEPT !.op = "Bind", !.h = h, !.o = c,
                                !.pre = ptr[h].internal_state_, !.info = Arg(c),
                                !.closed = r.closed, !.from = From(c)]
  /\ UNCHANGED nextEp

DoCreate(h, c) ==
  /\ ~ptr[h].live
  /\ LET r == Create(Arg(c), DefaultWaiter)
     IN /\ ptr' = [ptr EXCEPT ![h] = [live |-> TRUE, internal_state_ |-> r.self]]
        /\ cap' = Consume(c)
        /\ origin' = Forget(c)
        /\ CloseEndpoints(r.closed)
        /\ last' = [NoOp EXCEPT !.op = "Create", !.h = h, !.o = c, !.info = Arg(c),
                                !.closed = r.closed, !.from = From(c)]
  /\ UNCHANGED nextEp

\* the returned InterfaceHandle is stored in the free slot c
DoPassInterfaceHandle(h, c) ==
  /\ ptr[h].live
  /\ ~Handle_is_valid(cap[c])
  /\ LET r == PassInterfaceHandle(ptr[h].internal_state_)
     IN /\ ptr' = [ptr EXCEPT ![h].internal_state_ = r.self]
        /\ cap' = [cap EXCEPT ![c] = r.handle]
        /\ origin' = [origin EXCEPT ![c] =
                        [ep |-> ptr[h].internal_state_.ep,
                         version |-> version(ptr[h].internal_state_)]]
        /\ CloseEndpoints(r.closed)
        /\ last' = [NoOp EXCEPT !.op = "PassInterfaceHandle", !.h = h, !.o = c,
                                !.pre = ptr[h].internal_state_, !.ret = r.handle,
                                !.closed = r.closed]
  /\ UNCHANGED nextEp

\* the requirement travels over the pipe if there is one
DoRequireVersion(h, v) ==
  /\ ptr[h].live
  /\ LET r == RequireVersion(ptr[h].internal_state_, v)
         e == ptr[h].internal_state_.ep
     IN /\ ptr' = [ptr EXCEPT ![h].internal_state_ = r.self]
        /\ pending' = IF r.sent # 0 /\ e # NoEndpoint /\ e \notin peerClosed
                        THEN [pending EXCEPT ![e] = r.sent]
                        ELSE pending
        /\ last' = [NoOp EXCEPT !.op = "RequireVersion", !.h = h, !.v = v,
                                !.pre = ptr[h].internal_state_]
  /\ UNCHANGED <<cap, closed, nextEp, remoteVer, peerClosed, out, inb, origin>>

\* an interface method is called through the pointer, which must be bound
DoCall(h) ==
  /\ ptr[h].live
  /\ is_bound(ptr[h].internal_state_)
  /\ LET r == Call(ptr[h].internal_state_)
         e == ptr[h].internal_state_.ep
     IN /\ r.sent => out[e] < MaxOut
        /\ ptr' = [ptr EXCEPT ![h].internal_state_ = r.self]
        /\ out' = IF r.sent /\ e \notin peerClosed
                    THEN [out EXCEPT ![e] = out[e] + 1]
                    ELSE out
        /\ last' = [NoOp EXCEPT !.op = "Call", !.h = h, !.sent = r.sent,
                                !.pre = ptr[h].internal_state_]
  /\ UNCHANGED <<cap, closed, nextEp, remoteVer, pending, peerClosed, inb, origin>>

\* the blocking wait returns once a message or an error has come
DoWaitForIncomingResponse(h) ==
  /\ ptr[h].live
  /\ is_bound(ptr[h].internal_state_)
  /\ LET e == ptr[h].internal_state_.ep
         r == WaitForIncomingResponse(ptr[h].internal_state_, inb[e] > 0, e \in peerClosed)
     IN /\ ~r.blocked
        /\ ptr' = [ptr EXCEPT ![h].internal_state_ = r.self]
        /\ inb' = [inb EXCEPT ![e] = inb[e] - r.read]
        /\ last' = [NoOp EXCEPT !.op = "WaitForIncomingResponse", !.h = h,
                                !.pre = ptr[h].internal_state_, !.res = r.result,
                                !.read = r.read, !.readable = inb[e] > 0,
                                !.peerGone = e \in peerClosed]
  /\ UNCHANGED <<cap, closed, nextEp, remoteVer, pending, peerClosed, out, origin>>

DoWaitForIncomingResponseWithTimeout(h, timeout) ==
  /\ ptr[h].live
  /\ is_bound(ptr[h].internal_state_)
  /\ LET e == ptr[h].internal_state_.ep
         r == WaitForIncomingResponseWithTimeout(ptr[h].internal_state_, timeout,
                                                inb[e] > 0, e \in peerClosed)
     IN /\ ~r.blocked
        /\ ptr' = [ptr EXCEPT ![h].internal_state_ = r.self]
        /\ inb' = [inb EXCEPT ![e] = inb[e] - r.read]
        /\ last' = [NoOp EXCEPT !.op = "WaitForIncomingResponseWithTimeout", !.h = h,
                                !.v = timeout,
                                !.pre = ptr[h].internal_state_, !.res = r.result,
                                !.read = r.read, !.readable = inb[e] > 0,
                                !.peerGone = e \in peerClosed]
  /\ UNCHANGED <<cap, closed, nextEp, remoteVer, pending, peerClosed, out, origin>>

\* ---- the environment ----
\* whoever establishes a connection hands out a capability for a fresh channel
NewCapability(c, rv, dv) ==
  /\ ~Handle_is_valid(cap[c])
  /\ nextEp <= MaxEndpoints
  /\ dv <= rv
  /\ cap' = [cap EXCEPT ![c] = [ep |-> nextEp, version |-> dv]]
  /\ remoteVer' = [remoteVer EXCEPT ![nextEp] = rv]
  /\ nextEp' = nextEp + 1
  /\ last' = NoOp
  /\ origin' = Forget(c)
  /\ UNCHANGED <<ptr, closed, pending, peerClosed, out, inb>>

DropCapability(c) ==
  /\ Handle_is_valid(cap[c])
  /\ cap' = [cap EXCEPT ![c] = InvalidHandle]
  /\ CloseEndpoints(Handle_Destroy(cap[c]))
  /\ last' = [NoOp EXCEPT !.op = "DropCapability", !.o = c, !.info = cap[c],
                          !.closed = Handle_Destroy(cap[c])]
  /\ origin' = Forget(c)
  /\ UNCHANGED <<ptr, nextEp>>

\* the remote reads a version requirement and closes its end if unsupported
RemoteProcess(e) ==
  /\ pending[e] # 0
  /\ pending' = [pending EXCEPT ![e] = 0]
  /\ peerClosed' = IF pending[e] > remoteVer[e] THEN peerClosed \cup {e} ELSE peerClosed
  /\ out' = IF pending[e] > remoteVer[e] THEN [out EXCEPT ![e] = 0] ELSE out
  /\ last' = NoOp
  /\ UNCHANGED <<ptr, cap, closed, nextEp, remoteVer, inb, origin>>

\* the remote reads a method call and writes its response
RemoteRespond(e) ==
  /\ out[e] > 0 /\ inb[e] < MaxIn
  /\ e \notin peerClosed
  /\ out' = [out EXCEPT ![e] = out[e] - 1]
  /\ inb' = [inb EXCEPT ![e] = inb[e] + 1]
  /\ last' = NoOp
  /\ UNCHANGED <<ptr, cap, closed, nextEp, remoteVer, pending, peerClosed, origin>>

RemoteClose(e) ==
  /\ e < nextEp /\ e \notin closed /\ e \notin peerClosed
  /\ peerClosed' = peerClosed \cup {e}
  /\ pending' = [pending EXCEPT ![e] = 0]
  /\ out' = [out EXCEPT ![e] = 0]
  /\ last' = NoOp
  /\ UNCHANGED <<ptr, cap, closed, nextEp, remoteVer, inb, origin>>

\* the waiter's notification reaches the binding: the peer is gone
NotifyError(h) ==
  /\ ptr[h].live
  /\ is_bound(ptr[h].internal_state_)
  /\ ptr[h].internal_state_.ep \in peerClosed
  /\ ~ptr[h].internal_state_.err
  /\ ptr' = [ptr EXCEPT ![h].internal_state_.err = TRUE]
  /\ last' = [NoOp EXCEPT !.op = "NotifyError", !.h = h, !.pre = ptr[h].internal_state_]
  /\ UNCHANGED <<cap, closed, nextEp, remoteVer, pending, peerClosed, out, inb, origin>>

\* the waiter's notification reaches the binding: a response is dispatched
NotifyMessage(h) ==
  /\ ptr[h].live
  /\ is_bound(ptr[h].internal_state_)
  /\ ~ptr[h].internal_state_.err
  /\ inb[ptr[h].internal_state_.ep] > 0
  /\ inb' = [inb EXCEPT ![ptr[h].internal_state_.ep] = @ - 1]
  /\ last' = [NoOp EXCEPT !.op = "NotifyMessage", !.h = h, !.pre = ptr[h].internal_state_]
  /\ UNCHANGED <<ptr, cap, closed, nextEp, remoteVer, pending, peerClosed, out, origin>>

Next ==
  \/ \E h \in Ptrs : DoConstruct(h)
  \/ \E h \in Ptrs, o \in Ptrs : DoMoveConstruct(h, o)
  \/ \E h \in Ptrs, o \in Ptrs : DoMoveAssign(h, o)
  \/ \E h \in Ptrs : DoAssignNull(h)
  \/ \E h \in Ptrs : DoDestroy(h)
  \/ \E h \in Ptrs : DoReset(h)
  \/ \E h \in Ptrs, c \in Caps \cup {0} : DoBind(h, c)
  \/ \E h \in Ptrs, c \in Caps \cup {0} : DoCreate(h, c)
  \/ \E h \in Ptrs, c \in Caps : DoPassInterfaceHandle(h, c)
  \/ \E h \in Ptrs, v \in Versions : DoRequireVersion(h, v)
  \/ \E h \in Ptrs : DoCall(h)
  \/ \E h \in Ptrs : DoWaitForIncomingResponse(h)
  \/ \E h \in Ptrs, t \in Timeouts : DoWaitForIncomingResponseWithTimeout(h, t)
  \/ \E c \in Caps, rv \in Versions, dv \in Versions : NewCapability(c, rv, dv)
  \/ \E c \in Caps : DropCapability(c)
  \/ \E e \in Endpoints : RemoteProcess(e)
  \/ \E e \in Endpoints : RemoteClose(e)
  \/ \E h \in Ptrs : NotifyError(h)
  \/ \E e \in Endpoints : RemoteRespond(e)
  \/ \E h \in Ptrs : NotifyMessage(h)

Spec == Init /\ [][Next]_vars

\* ---- one pointer H and its remote, with the scheduling the waiter and
\* the remote guarantee: what is sent is read, what is signalled is delivered
H == 1

NextH ==
  \/ DoConstruct(H)
  \/ DoMoveAssign(H, H)
  \/ DoAssignNull(H)
  \/ DoDestroy(H)
  \/ DoReset(H)
  \/ \E c \in Caps \cup {0} : DoBind(H, c)
  \/ \E c \in Caps \cup {0} : DoCreate(H, c)
  \/ \E c \in Caps : DoPassInterfaceHandle(H, c)
  \/ \E v \in Versions : DoRequireVersion(H, v)
  \/ DoCall(H)
  \/ DoWaitForIncomingResponse(H)
  \/ \E t \in Timeouts : DoWaitForIncomingResponseWithTimeout(H, t)
  \/ \E c \in Caps, rv \in Versions, dv \in Versions : NewCapability(c, rv, dv)
  \/ \E c \in Caps : DropCapability(c)
  \/ \E e \in Endpoints : RemoteProcess(e)
  \/ \E e \in Endpoints : RemoteClose(e)
  \/ NotifyError(H)
  \/ \E e \in Endpoints : RemoteRespond(e)
  \/ NotifyMessage(H)

Fairness ==
  /\ \A e \in Endpoints : WF_vars(RemoteProcess(e))
  /\ WF_vars(NotifyError(H))

FairSpec == Init /\ [][NextH]_vars /\ Fairness

TypeOK ==
  /\ \A h \in Ptrs : ptr[h].internal_state_.ep \in Endpoints \cup {NoEndpoint}
  /\ \A c \in Caps : cap[c].ep \in Endpoints \cup {NoEndpoint}
  /\ closed \subseteq Endpoints
  /\ nextEp \in 1..(MaxEndpoints + 1)

\* ---- properties ----
St(h) == ptr[h].internal_state_

Owners(e) == {h \in Ptrs : ptr[h].live /\ is_bound(St(h)) /\ St(h).ep = e}

Holders(e) == {c \in Caps : Handle_is_valid(cap[c]) /\ cap[c].ep = e}

\* C1: at every instant at most one live InterfacePtr is bound to a given
\* channel endpoint, whatever constructions, moves, assignments, Bind, reset,
\* PassInterfaceHandle and destructions came before.
C1_SingleOwner == \A e \in Endpoints : Cardinality(Owners(e)) <= 1

C1_Witness ==
  /\ last.op \in {"MoveConstruct", "MoveAssign"}
  /\ last.h # last.o
  /\ is_bound(last.opre)
  /\ Owners(last.opre.ep) = {last.h}
  /\ ptr[last.o].live /\ ~is_bound(St(last.o))

\* C2: a channel endpoint is never held by a valid InterfaceHandle and by a
\* bound InterfacePtr at once: Bind and Create consume the handle they bind
\* and PassInterfaceHandle leaves the pointer unbound.
C2_HandleXorPtr == \A e \in Endpoints : Owners(e) = {} \/ Holders(e) = {}

C2_Witness ==
  /\ last.op = "PassInterfaceHandle"
  /\ is_bound(last.pre)
  /\ Holders(last.pre.ep) = {last.o}
  /\ Owners(last.pre.ep) = {}

\* C3: after reset() the pointer is unbound whatever state it was in, and a
\* second reset() changes neither the pointer nor any endpoint.
C3_ResetIdempotent ==
  last.op = "reset" =>
    /\ ~is_bound(St(last.h))
    /\ reset(St(last.h)) = [self |-> St(last.h), closed |-> {}]
    /\ ~is_bound(last.pre) => last.closed = {}

C3_Witness ==
  /\ last.op = "reset"
  /\ is_bound(last.pre) /\ encountered_error(last.pre)
  /\ ~is_bound(St(last.h))

\* C4: a bound pointer that is reset, assigned nullptr or destroyed closes
\* its endpoint, which nobody owns afterwards; no closed endpoint is owned
\* by a live pointer or a valid handle.
C4_ReleaseCloses ==
  /\ \A e \in closed : Owners(e) = {} /\ Holders(e) = {}
  /\ (last.op \in {"reset", "AssignNull", "Destroy"} /\ is_bound(last.pre)) =>
       last.pre.ep \in closed

C4_Witness ==
  /\ last.op = "Destroy"
  /\ is_bound(last.pre)
  /\ last.pre.ep \in closed
  /\ ~ptr[last.h].live

\* C5: Bind with a valid InterfaceHandle closes the endpoint the pointer
\* owned before, if any, and leaves it bound to the handle's endpoint with
\* no error and with the handle's version.
C5_BindValid ==
  (last.op = "Bind" /\ Handle_is_valid(last.info)) =>
    /\ is_bound(last.pre) => (last.pre.ep \in closed /\ Owners(last.pre.ep) = {})
    /\ is_bound(St(last.h))
    /\ St(last.h).ep = last.info.ep
    /\ Owners(last.info.ep) = {last.h}
    /\ ~encountered_error(St(last.h))
    /\ version(St(last.h)) = Handle_version(last.info)

C5_Witness ==
  /\ last.op = "Bind" /\ Handle_is_valid(last.info)
  /\ is_bound(last.pre) /\ encountered_error(last.pre)
  /\ last.pre.ep # last.info.ep
  /\ St(last.h).ep = last.info.ep

\* C6: Bind with an invalid InterfaceHandle does what reset() does: the
\* pointer ends unbound and without error, and the endpoint it owned is closed.
C6_BindInvalid ==
  (last.op = "Bind" /\ ~Handle_is_valid(last.info)) =>
    /\ St(last.h) = reset(last.pre).self
    /\ last.closed = reset(last.pre).closed
    /\ ~is_bound(St(last.h))
    /\ ~encountered_error(St(last.h))
    /\ is_bound(last.pre) => last.pre.ep \in closed

C6_Witness ==
  /\ last.op = "Bind" /\ ~Handle_is_valid(last.info)
  /\ is_bound(last.pre)
  /\ ~is_bound(St(last.h))

\* C7: PassInterfaceHandle on a bound pointer leaves it unbound and returns
\* a valid handle with the pointer's endpoint and version; the endpoint stays
\* open.
C7_PassKeepsEndpoint ==
  (last.op = "PassInterfaceHandle" /\ is_bound(last.pre)) =>
    /\ ~is_bound(St(last.h))
    /\ Handle_is_valid(last.ret)
    /\ last.ret.ep = last.pre.ep
    /\ Handle_version(last.ret) = version(last.pre)
    /\ cap[last.o] = last.ret
    /\ last.pre.ep \notin closed

C7_Witness ==
  /\ last.op = "PassInterfaceHandle"
  /\ is_bound(last.pre) /\ version(last.pre) > 0
  /\ cap[last.o].ep = last.pre.ep

\* C8: a handle passed out of a bound pointer P with version n and bound to
\* another pointer Q leaves Q bound to P's endpoint with version n.
C8_RoundTrip ==
  (last.op = "Bind" /\ last.from.ep # NoEndpoint) =>
    /\ is_bound(St(last.h))
    /\ St(last.h).ep = last.from.ep
    /\ version(St(last.h)) = last.from.version

C8_Witness ==
  /\ last.op = "Bind"
  /\ last.from.ep # NoEndpoint /\ last.from.version > 0
  /\ last.pre = InterfacePtr
  /\ is_bound(St(last.h))

\* C9: Create returns an unbound pointer for an invalid handle and otherwise
\* the pointer a default-constructed one becomes under Bind.
C9_Create ==
  last.op = "Create" =>
    IF Handle_is_valid(last.info)
      THEN /\ St(last.h) = Bind(InterfacePtr, last.info, DefaultWaiter).self
           /\ is_bound(St(last.h))
           /\ St(last.h).ep = last.info.ep
           /\ version(St(last.h)) = Handle_version(last.info)
           /\ last.closed = {}
      ELSE /\ St(last.h) = InterfacePtr
           /\ ~is_bound(St(last.h))

C9_Witness ==
  /\ last.op = "Create" /\ Handle_is_valid(last.info)
  /\ Owners(last.info.ep) = {last.h}

\* C10: RequireVersion(v) with v <= version() changes nothing: the pointer,
\* the handles and every channel are as before, and no requirement is sent
\* that could make the remote close its end.
C10_RequireVersionNoop ==
  [][\A h \in Ptrs, v \in Versions :
       (DoRequireVersion(h, v) /\ v <= version(St(h))) =>
         UNCHANGED <<ptr, cap, closed, nextEp, remoteVer, pending, peerClosed>>]_vars

C10_Witness ==
  /\ last.op = "RequireVersion"
  /\ is_bound(last.pre)
  /\ last.v > 0 /\ last.v <= version(last.pre)
  /\ St(last.h) = last.pre

ErrOwners(e) == {h \in Owners(e) : encountered_error(St(h))}

\* RequireVersion was just called on the owner of e with a version the
\* remote does not support
Unsupported(e) ==
  /\ last.op = "RequireVersion"
  /\ last.pre.ep = e
  /\ last.v > remoteVer[e]

\* C11: once RequireVersion(v) with v above the remote's version is on its
\* way, the pointer that owns the endpoint eventually reports
\* encountered_error() (unless it gives the endpoint up first), and a method
\* call made in the error state is dropped.
C11_UnsupportedLeadsToError ==
  /\ \A e \in Endpoints :
       (Unsupported(e) /\ Owners(e) # {}) ~> (ErrOwners(e) # {} \/ Owners(e) = {})
  /\ [](last.op = "Call" /\ encountered_error(last.pre) => ~last.sent)

C11_Witness ==
  /\ last.op = "Call" /\ ~last.sent
  /\ encountered_error(last.pre)
  /\ version(last.pre) > remoteVer[last.pre.ep]

\* the steps in which a notification is delivered to a binding
Notifications ==
  {"NotifyError", "NotifyMessage", "WaitForIncomingResponse",
   "WaitForIncomingResponseWithTimeout"}

\* the steps that end a pointer's binding or hand it to another owner
Unbinding ==
  {"reset", "Bind", "AssignNull", "Destroy", "MoveAssign", "MoveConstruct",
   "PassInterfaceHandle"}

\* C12: RequireVersion never fails in the call itself: encountered_error()
\* is the same right after the call as before it, for every v, and a binding
\* that was not in error gets into error only in a step that delivers a
\* notification.
C12_NoSynchronousFailure ==
  [][/\ \A h \in Ptrs, v \in Versions :
          DoRequireVersion(h, v) =>
            /\ encountered_error(St(h))' = encountered_error(St(h))
            /\ is_bound(St(h))' = is_bound(St(h))
     /\ \A h \in Ptrs :
          (~encountered_error(St(h)) /\ encountered_error(St(h))') =>
            last'.op \in Notifications \cup Unbinding]_vars

C12_Witness ==
  /\ last.op = "RequireVersion"
  /\ is_bound(last.pre) /\ ~encountered_error(last.pre)
  /\ last.v > version(last.pre) /\ last.v > remoteVer[last.pre.ep]
  /\ pending[last.pre.ep] = last.v
  /\ ~encountered_error(St(last.h))

\* C13: the error flag is sticky: a binding in error stays in error as long
\* as a pointer owns its endpoint, also across moves, and a pointer's flag
\* goes from true to false only in a step that ends or hands over its
\* binding, never in a call, a wait, RequireVersion or a notification.
C13_ErrorSticky ==
  [][/\ \A e \in Endpoints :
          ErrOwners(e) # {} => (ErrOwners(e)' # {} \/ Owners(e)' = {})
     /\ \A h \in Ptrs :
          (encountered_error(St(h)) /\ ~encountered_error(St(h))') =>
            last'.op \in Unbinding]_vars

C13_Witness ==
  /\ last.op = "RequireVersion"
  /\ encountered_error(last.pre)
  /\ last.v > version(last.pre)
  /\ encountered_error(St(last.h))

\* C14: a pointer in error is still bound, and a method call through it
\* changes nothing: no message is written to the pipe and the pointer stays
\* as it was.
C14_CallsDropped ==
  [][/\ \A h \in Ptrs : encountered_error(St(h)) => is_bound(St(h))
     /\ \A h \in Ptrs :
          (DoCall(h) /\ encountered_error(St(h))) =>
            /\ UNCHANGED <<ptr, cap, closed, nextEp, remoteVer, pending, peerClosed,
                           out, inb>>
            /\ ~last'.sent]_vars

C14_Witness ==
  /\ last.op = "Call" /\ ~last.sent
  /\ encountered_error(last.pre)
  /\ is_bound(St(last.h)) /\ St(last.h) = last.pre
  /\ out[last.pre.ep] = 0

\* C15: WaitForIncomingResponse returns true exactly when it dispatched one
\* inbound message and false exactly when the binding is in error when it
\* returns; it returns only after one of the two.
C15_WaitResult ==
  last.op = "WaitForIncomingResponse" =>
    /\ last.res <=> last.read = 1
    /\ last.res => (last.readable /\ ~encountered_error(last.pre))
    /\ ~last.res <=> encountered_error(St(last.h))
    /\ ~last.res => (encountered_error(last.pre) \/ last.peerGone)
    /\ is_bound(St(last.h))

C15_Witness ==
  /\ last.op = "WaitForIncomingResponse"
  /\ last.res /\ last.read = 1
  /\ inb[last.pre.ep] = 0

\* C16 as stated: a timed wait with timeout 0 on a bound pointer that is not
\* in error and has no pending message returns false and leaves the pointer
\* bound and not in error.
C16_Original ==
  (/\ last.op = "WaitForIncomingResponseWithTimeout" /\ last.v = 0
   /\ ~encountered_error(last.pre) /\ ~last.readable) =>
    /\ ~last.res
    /\ ~encountered_error(St(last.h))
    /\ is_bound(St(last.h))

\* C16, amended: the same when, in addition, the remote end has not closed;
\* and for every timed wait a false return with encountered_error() false is
\* a deadline that passed with the pointer unchanged, and a false return
\* with encountered_error() true is a failed channel.
C16_TimeoutIsNoError ==
  last.op = "WaitForIncomingResponseWithTimeout" =>
    /\ (last.v = 0 /\ ~encountered_error(last.pre) /\ ~last.readable /\ ~last.peerGone) =>
         (~last.res /\ ~encountered_error(St(last.h)) /\ is_bound(St(last.h)))
    /\ (~last.res /\ ~encountered_error(St(last.h))) =>
         (St(last.h) = last.pre /\ last.read = 0 /\ ~last.readable /\ ~last.peerGone)
    /\ (~last.res /\ encountered_error(St(last.h))) =>
         (encountered_error(last.pre) \/ last.peerGone)

C16_Witness ==
  /\ last.op = "WaitForIncomingResponseWithTimeout" /\ last.v = 0
  /\ ~encountered_error(last.pre) /\ ~last.readable /\ ~last.peerGone
  /\ ~last.res
  /\ St(last.h) = last.pre

\* version() of the pointer that owns endpoint e, in the pointers p
OwnerVersion(p, e) ==
  LET h == CHOOSE h \in Ptrs : p[h].live /\ p[h].internal_state_.ep = e
  IN version(p[h].internal_state_)

\* C17: as long as an endpoint is owned by a pointer, from one step to the
\* next, the owner's version() does not decrease, whatever the step.
C17_VersionMonotonic ==
  [][\A e \in Endpoints :
       (Owners(e) # {} /\ Owners(e)' # {}) =>
         OwnerVersion(ptr', e) >= OwnerVersion(ptr, e)]_vars

C17_Witness ==
  /\ last.op = "RequireVersion"
  /\ is_bound(last.pre)
  /\ version(St(last.h)) > version(last.pre)
  /\ St(last.h).ep = last.pre.ep

\* C18: B = move(A) with A and B bound to different endpoints closes B's
\* endpoint and leaves B with A's binding and A unbound; a pointer move
\* constructed from A has A's binding and A is unbound.
C18_MoveTakesBinding ==
  /\ (last.op = "MoveAssign" /\ last.h # last.o) =>
       /\ St(last.h) = last.opre
       /\ ~is_bound(St(last.o))
       /\ is_bound(last.pre) => (last.pre.ep \in closed /\ last.closed = {last.pre.ep})
       /\ is_bound(last.opre) => (last.opre.ep \notin closed /\ Owners(last.opre.ep) = {last.h})
  /\ last.op = "MoveConstruct" =>
       /\ St(last.h) = last.opre
       /\ ~is_bound(St(last.o))
       /\ is_bound(last.opre) => (last.opre.ep \notin closed /\ Owners(last.opre.ep) = {last.h})

C18_Witness ==
  /\ last.op = "MoveAssign" /\ last.h # last.o
  /\ is_bound(last.pre) /\ is_bound(last.opre)
  /\ last.pre.ep # last.opre.ep
  /\ last.pre.ep \in closed
  /\ St(last.h).ep = last.opre.ep

\* C19: A = move(A) on a bound pointer leaves A unbound and its endpoint
\* closed.
C19_SelfMoveAssign ==
  (last.op = "MoveAssign" /\ last.h = last.o) =>
    /\ ~is_bound(St(last.h))
    /\ is_bound(last.pre) => (last.pre.ep \in closed /\ Owners(last.pre.ep) = {})

C19_Witness ==
  /\ last.op = "MoveAssign" /\ last.h = last.o
  /\ is_bound(last.pre)
  /\ ~is_bound(St(last.h))
  /\ last.pre.ep \in closed

====
